---- MODULE Spec2Model ----
(***************************************************************************)
(* Model of the famiguru LINE webhook: identity resolution, family         *)
(* linking, conversation logging and AI co-participation, as implemented   *)
(* by the three revisions of the webhook route (group-aware, 1:1-only,     *)
(* 1:1-only with AI) in src/unnamed/part_002.                              *)
(*                                                                         *)
(* One process is one webhook delivery (one POST invocation).  A step of   *)
(* a process is one awaited call on a collaborator (store, LINE, OpenAI)   *)
(* together with the synchronous code that follows it up to the next       *)
(* await, so deliveries interleave exactly at the awaits.                  *)
(***************************************************************************)
EXTENDS Integers, Sequences, FiniteSets, TLC

\* ------------------------------------------------------------ bounds
NumDeliveries == 2
MaxEvents == 2
MaxFaults == 1
MaxMeanwhile == 5
NumRuns == 1
MaxFamilies == 3
NumRequests == 2

\* ------------------------------------------------- program constants
HistoryLimit == 5

\* ------------------------------------------------------- value spaces
Deliveries == 1..NumDeliveries
NoId == "null"
Null == 0
UserIds == {"U1", "U2"}
GroupIds == {"G1"}
RoomIds == {"R1"}
Variants == {"group", "solo", "soloAI"}

\* event.source of a text event: a 1:1 chat, a group or a room
Sources ==
  {[userId |-> u, groupId |-> NoId, roomId |-> NoId] : u \in UserIds}
  \cup {[userId |-> u, groupId |-> g, roomId |-> NoId] : u \in UserIds, g \in GroupIds}
  \cup {[userId |-> "U1", groupId |-> NoId, roomId |-> r] : r \in RoomIds}
NoEvent == [userId |-> NoId, groupId |-> NoId, roomId |-> NoId]

EventKinds == {"text", "other"}
KindSeqs(n) == UNION {[1..k -> EventKinds] : k \in 0..n}

NoText == <<>>
NoResponse == [status |-> 0, message |-> ""]
NoRequest == [sig |-> FALSE, body |-> "none", kinds |-> <<>>]

VARIABLES
  variant,         \* which revision of the webhook route is deployed
  faultsLeft,      \* how many more inserts the store may fail for no reason of its own
  profiles,        \* table profiles, in creation order; id = position
  families,        \* table families, in creation order; id = position
  family_members,  \* table family_members, in insertion order
  conversations,   \* table conversations, in sent_at order
  daily_topics,    \* table daily_topics, in insertion order
  pushed,          \* messages LINE accepted: set of [to, text]
  calls,           \* calls made on OpenAI and LINE, with their outcomes
  pc,              \* per delivery: the await it is suspended at
  req,             \* per delivery: the request (signature validity, body, events)
  idx,             \* per delivery: index of the event being processed
  loc,             \* per delivery: the locals of the loop body (see NoLocals)
  resp             \* per delivery: the HTTP response returned

store == <<profiles, families, family_members, conversations, daily_topics>>
vars == <<variant, faultsLeft, profiles, families, family_members, conversations,
          daily_topics, pushed, calls, pc, req, idx, loc, resp>>

\* the locals of one iteration of the event loop, before anything is assigned
NoLocals ==
  [ev |-> NoEvent,        \* event.source of the text event
   profileId |-> Null,    \* profileId / profile.id
   familyId |-> Null,     \* familyId
   famErr |-> FALSE,      \* the families insert returned no row
   joinErr |-> "none",    \* joinError of the family_members insert
   saveErr |-> FALSE,     \* saveError of the conversations insert
   ctx |-> <<>>,          \* history handed to the chat completion
   aiText |-> NoText]     \* trimmed completion text

\* ------------------------------------------------------------ helpers
Min(a, b) == IF a < b THEN a ELSE b

Reverse(s) == [i \in 1..Len(s) |-> s[Len(s) + 1 - i]]

Take(s, n) == SubSeq(s, 1, Min(n, Len(s)))

MapContent(s) == [i \in 1..Len(s) |-> s[i].content]

\* message text of event i of delivery d, and the completion produced for it
Text(d, i) == <<"msg", d, i>>
Completion(d, i) == <<"ai", d, i>>

\* an insert may fail for no reason of its own while the store has faults left
Spurious == IF faultsLeft > 0 THEN BOOLEAN ELSE {FALSE}
Fault(fail) == faultsLeft' = IF fail THEN faultsLeft - 1 ELSE faultsLeft
NoFaultYet == faultsLeft = MaxFaults

\* ------------------------------------------------ the store's constraints
\* profiles.line_user_id is unique
ProfileInsertViolates(row) ==
  /\ row.line_user_id # NoId
  /\ \E i \in DOMAIN profiles : profiles[i].line_user_id = row.line_user_id

\* families.line_group_id is unique when present
FamilyInsertViolatesSecondPersonal(row) ==
  \E i \in DOMAIN families : families[i].line_group_id = row.line_group_id

FamilyInsertViolates(row) ==
  /\ row.line_group_id # NoId
  /\ \E i \in DOMAIN families : families[i].line_group_id = row.line_group_id

\* (family_id, user_id) is the key of family_members
MemberInsertViolates(row) ==
  \E i \in DOMAIN family_members : family_members[i] = row

\* ------------------------------------------------------- store queries
\* .from('profiles').select('id').eq('line_user_id', userId).single()
SelectProfileUnseen(userId) == Null

SelectProfile(userId) ==
  LET hits == {i \in DOMAIN profiles : profiles[i].line_user_id = userId}
  IN IF Cardinality(hits) = 1 THEN CHOOSE i \in hits : TRUE ELSE Null

\* .from('families').select('id').eq('line_group_id', lineGroupId).single()
SelectFamily(lineGroupId) ==
  LET hits == {i \in DOMAIN families : families[i].line_group_id = lineGroupId}
  IN IF Cardinality(hits) = 1 THEN CHOOSE i \in hits : TRUE ELSE Null

\* family_members joined to families with line_group_id null, for one user;
\* .limit(1) without an order returns any one of these
PersonalLookupNoGroupFilter(pid) ==
  {family_members[i].family_id : i \in {j \in DOMAIN family_members :
      family_members[j].user_id = pid}}

PersonalLookup(pid) ==
  {family_members[i].family_id : i \in {j \in DOMAIN family_members :
      /\ family_members[j].user_id = pid
      /\ families[family_members[j].family_id].line_group_id = NoId}}

\* conversations of one family, newest first, limit 5, reversed, contents
FamilyHistoryNoReverse(fid) ==
  LET OfFamily(c) == c.family_id = fid
      newestFirst == Reverse(SelectSeq(conversations, OfFamily))
  IN MapContent(Take(newestFirst, HistoryLimit))

FamilyHistory(fid) ==
  LET OfFamily(c) == c.family_id = fid
      newestFirst == Reverse(SelectSeq(conversations, OfFamily))
  IN MapContent(Reverse(Take(newestFirst, HistoryLimit)))

\* the sender's last 5 conversations, newest first (AI rows included)
SenderRecent(sid) ==
  LET OfSender(c) == c.sender_id = sid
  IN Take(Reverse(SelectSeq(conversations, OfSender)), HistoryLimit)

\* ... AI rows filtered out, contents, reversed to chronological order
UserMessagesUnfiltered(rows) == Reverse(MapContent(rows))

UserMessages(rows) ==
  LET Human(c) == ~c.is_ai_generated
  IN Reverse(MapContent(SelectSeq(rows, Human)))

\* ------------------------------------------------------- rows inserted
\* display_name (LINE's name, or 'Guest') is left out: nothing modelled reads it
NewProfileNoUserId(userId, role) == [line_user_id |-> NoId, role |-> role]

NewProfile(userId, role) == [line_user_id |-> userId, role |-> role]

NewFamilyNoGroupId(lineGroupId, name) ==
  [line_group_id |-> NoId, name |-> name]

NewFamily(lineGroupId, name) ==
  [line_group_id |-> lineGroupId, name |-> name]

NewMemberNoUser(fid, pid) == [family_id |-> fid, user_id |-> Null]

NewMember(fid, pid) == [family_id |-> fid, user_id |-> pid]

NewConversationAllAI(sender, family, content, ai) ==
  [sender_id |-> sender, family_id |-> family, content |-> content,
   is_ai_generated |-> TRUE]

NewConversation(sender, family, content, ai) ==
  [sender_id |-> sender, family_id |-> family, content |-> content,
   is_ai_generated |-> ai]

\* ------------------------------------------------------ local decisions
\* const groupId = event.source.groupId || event.source.roomId || null
GroupOf(e) ==
  IF e.groupId # NoId THEN e.groupId
  ELSE IF e.roomId # NoId THEN e.roomId ELSE NoId

\* validateSignature(body, channelSecret, signature)
SignatureAcceptedAlways(sig) == TRUE

SignatureAccepted(sig) == sig

InvalidSignatureResponse == [status |-> 200, message |-> "Invalid signature"]
OkResponse == [status |-> 200, message |-> "OK"]

CatchResponse500 == [status |-> 500, message |-> "Error"]

CatchResponse == [status |-> 200, message |-> "Error"]

\* getOrCreateFamily returns familyId whatever joinError was
FamilyAfterJoinNullOnError(fid, err) == IF err # "none" THEN Null ELSE fid

FamilyAfterJoinNullOnOther(fid, err) == IF err = "other" THEN Null ELSE fid

FamilyAfterJoin(fid, err) == fid

\* what the completion carries: text, only white space, or no content at all
Whitespace == <<" ">>
RawOutput(out, d, i) ==
  IF out = "text" THEN Completion(d, i)
  ELSE IF out = "blank" THEN Whitespace ELSE NoText

\* String.prototype.trim
Trim(t) == IF t = Whitespace THEN NoText ELSE t

\* completion.choices[0]?.message?.content?.trim(), as "" when falsy
Untrimmed(out, d, i) == RawOutput(out, d, i)

Trimmed(out, d, i) == Trim(RawOutput(out, d, i))

\* one call on a collaborator by delivery d while it processes its current event
Called(d, api, to, result) ==
  [by |-> d, at |-> idx[d], api |-> api, to |-> to, result |-> result]

DefaultRole == IF variant = "group" THEN "member" ELSE "unknown"

\* if (!saveError && familyId) { if (Math.random() < 0.3) ... }; the 1:1 revision
\* with AI tests saveError alone, the plain 1:1 revision has no AI
ParticipatesWhateverSaved(saveError, familyId, draw) ==
  /\ draw
  /\ variant # "solo"

Participates(saveError, familyId, draw) ==
  /\ ~saveError
  /\ draw
  /\ variant # "solo"
  /\ variant = "group" => familyId # Null

\* ------------------------------------------------------------- actions
\* the store as earlier deliveries left it: U1 wrote three messages (in group G1
\* for the group-aware revision) and the AI answered the first two; under the
\* group-aware revision U1 then wrote once in the 1:1 chat
SettledConversations(family) ==
  <<NewConversation(1, family, Text(0, 1), FALSE),
    NewConversation(1, family, Completion(0, 1), TRUE),
    NewConversation(1, family, Text(0, 2), FALSE),
    NewConversation(1, family, Completion(0, 2), TRUE),
    NewConversation(1, family, Text(0, 3), FALSE)>>

InitFresh ==
  /\ profiles = <<>>
  /\ families = <<>>
  /\ family_members = <<>>
  /\ conversations = <<>>

InitSettled ==
  /\ profiles = <<NewProfile("U1", DefaultRole)>>
  /\ families = IF variant = "group"
                THEN <<NewFamily("G1", "FamilyGroup"), NewFamily(NoId, "MyHome")>>
                ELSE <<>>
  /\ family_members = IF variant = "group"
                      THEN <<NewMember(1, 1), NewMember(2, 1)>>
                      ELSE <<>>
  /\ conversations = IF variant = "group"
                     THEN Append(SettledConversations(1),
                                 NewConversation(1, 2, Text(0, 4), FALSE))
                     ELSE SettledConversations(Null)

Init ==
  /\ variant \in Variants
  /\ faultsLeft = MaxFaults
  /\ InitFresh \/ InitSettled
  /\ daily_topics = <<>>
  /\ pushed = {}
  /\ calls = {}
  /\ pc = [p \in Deliveries |-> "idle"]
  /\ req = [p \in Deliveries |-> NoRequest]
  /\ idx = [p \in Deliveries |-> 0]
  /\ loc = [p \in Deliveries |-> NoLocals]
  /\ resp = [p \in Deliveries |-> NoResponse]

Goto(p, label) == pc' = [pc EXCEPT ![p] = label]

\* continue, or the end of the loop body: back to the loop head, locals dropped
EndEvent(p) ==
  /\ Goto(p, "loop")
  /\ loc' = [loc EXCEPT ![p] = NoLocals]

\* return NextResponse.json(..., { status })
Respond(p, r) ==
  /\ resp' = [resp EXCEPT ![p] = r]
  /\ Goto(p, "done")
  /\ loc' = [loc EXCEPT ![p] = NoLocals]

\* where the handler goes once it holds a profile id
AfterProfileResolves == "resolveFamily"

AfterProfile == IF variant = "group" THEN "resolveFamily" ELSE "logMessage"

RECURSIVE EventsCarried(_)
\* the events of the deliveries in D, counted
EventsCarried(D) ==
  IF D = {} THEN 0
  ELSE LET q == CHOOSE d \in D : TRUE
       IN Len(req[q].kinds) + EventsCarried(D \ {q})

\* the events a request carries: all deliveries together carry at most MaxEvents;
\* a request that is not trusted or not parsed is represented by one carrying a
\* single text event, resp. none
EventsOf(p, sig, body) ==
  IF body # "ok" THEN {<<>>}
  ELSE IF sig THEN KindSeqs(MaxEvents - EventsCarried(Deliveries \ {p}))
  ELSE {<<"text">>}

\* POST: read the body, check the signature, parse the events
Receive(p) ==
  /\ pc[p] = "idle"
  /\ \E sig \in BOOLEAN, body \in {"ok", "malformed"} :
       \E ks \in EventsOf(p, sig, body) :
         /\ req' = [req EXCEPT ![p] = [sig |-> sig, body |-> body, kinds |-> ks]]
         /\ IF ~SignatureAccepted(sig)
            THEN Respond(p, InvalidSignatureResponse)
            ELSE IF body = "malformed"
            THEN Respond(p, CatchResponse)
            ELSE Goto(p, "loop") /\ UNCHANGED <<resp, loc>>
  /\ UNCHANGED <<variant, faultsLeft, store, pushed, calls, idx>>

\* if (event.type !== 'message' || event.message.type !== 'text') continue
IgnoredNever(kind) == FALSE

Ignored(kind) == kind # "text"

\* for (const event of events): the filter on the event type and the profile lookup
Loop(p) ==
  /\ pc[p] = "loop"
  /\ IF idx[p] = Len(req[p].kinds)
     THEN Respond(p, OkResponse) /\ UNCHANGED idx
     ELSE /\ idx' = [idx EXCEPT ![p] = @ + 1]
          /\ UNCHANGED resp
          /\ IF Ignored(req[p].kinds[idx[p] + 1])
             THEN EndEvent(p)
             ELSE \E src \in Sources :
                    LET found == SelectProfile(src.userId)
                    IN /\ loc' = [loc EXCEPT ![p] =
                                    [NoLocals EXCEPT !.ev = src, !.profileId = found]]
                       /\ Goto(p, IF found = Null THEN "insertProfile" ELSE AfterProfile)
  /\ UNCHANGED <<variant, faultsLeft, store, pushed, calls, req>>

\* if (!profileId) continue, resp. if (profileError) continue
NoProfileGoesOn(p) == Goto(p, AfterProfile) /\ UNCHANGED loc

NoProfile(p) == EndEvent(p)

\* the profiles insert; on error the event is given up (return null / continue)
InsertProfile(p) ==
  /\ pc[p] = "insertProfile"
  /\ \E fail \in Spurious :
       /\ Fault(fail)
       /\ LET row == NewProfile(loc[p].ev.userId, DefaultRole)
          IN IF fail \/ ProfileInsertViolates(row)
             THEN NoProfile(p) /\ UNCHANGED profiles
             ELSE /\ profiles' = Append(profiles, row)
                  /\ loc' = [loc EXCEPT ![p].profileId = Len(profiles) + 1]
                  /\ Goto(p, AfterProfile)
  /\ UNCHANGED <<variant, families, family_members, conversations, daily_topics,
                 pushed, calls, req, idx, resp>>

\* getOrCreateFamily: the lookup of the family, by group id or by membership
ResolveFamily(p) ==
  /\ pc[p] = "resolveFamily"
  /\ IF GroupOf(loc[p].ev) # NoId
     THEN LET existing == SelectFamily(GroupOf(loc[p].ev))
          IN /\ loc' = [loc EXCEPT ![p].familyId = existing]
             /\ Goto(p, IF existing # Null THEN "insertMember" ELSE "insertFamily")
     ELSE LET members == PersonalLookup(loc[p].profileId)
          IN IF members # {}
             THEN \E f \in members :
                    /\ loc' = [loc EXCEPT ![p].familyId = f]
                    /\ Goto(p, "insertMember")
             ELSE Goto(p, "insertFamily") /\ UNCHANGED loc
  /\ UNCHANGED <<variant, faultsLeft, store, pushed, calls, req, idx, resp>>

\* getOrCreateFamily: the families insert; familyId = newFamily?.id || null
InsertFamily(p) ==
  /\ pc[p] = "insertFamily"
  /\ \E fail \in Spurious :
       /\ Fault(fail)
       /\ LET row == IF GroupOf(loc[p].ev) # NoId
                     THEN NewFamily(GroupOf(loc[p].ev), "FamilyGroup")
                     ELSE NewFamily(NoId, "MyHome")
          IN IF fail \/ FamilyInsertViolates(row)
             THEN /\ loc' = [loc EXCEPT ![p].famErr = TRUE]
                  /\ Goto(p, "logMessage")
                  /\ UNCHANGED families
             ELSE /\ families' = Append(families, row)
                  /\ loc' = [loc EXCEPT ![p].familyId = Len(families) + 1]
                  /\ Goto(p, "insertMember")
  /\ UNCHANGED <<variant, profiles, family_members, conversations, daily_topics,
                 pushed, calls, req, idx, resp>>

\* getOrCreateFamily: the family_members insert and the return
InsertMember(p) ==
  /\ pc[p] = "insertMember"
  /\ \E fail \in Spurious :
       /\ Fault(fail)
       /\ LET row == NewMember(loc[p].familyId, loc[p].profileId)
              err == IF MemberInsertViolates(row) THEN "duplicate"
                     ELSE IF fail THEN "other" ELSE "none"
          IN /\ family_members' = IF err = "none" THEN Append(family_members, row)
                                  ELSE family_members
             /\ loc' = [loc EXCEPT ![p].joinErr = err,
                                   ![p].familyId = FamilyAfterJoin(loc[p].familyId, err)]
  /\ Goto(p, "logMessage")
  /\ UNCHANGED <<variant, profiles, families, conversations, daily_topics,
                 pushed, calls, req, idx, resp>>

\* the family id the inbound message and the AI reply are logged under
LoggedFamily(p) == IF variant = "group" THEN loc[p].familyId ELSE Null

\* the conversations insert of the inbound message, and the draw Math.random() < 0.3
LogMessage(p) ==
  /\ pc[p] = "logMessage"
  /\ \E fail \in Spurious, draw \in BOOLEAN :
       /\ Fault(fail)
       /\ LET row == NewConversation(loc[p].profileId, LoggedFamily(p),
                                     Text(p, idx[p]), FALSE)
              participate == Participates(fail, loc[p].familyId, draw)
          IN /\ conversations' = IF fail THEN conversations
                                 ELSE Append(conversations, row)
             /\ IF participate
                THEN Goto(p, "aiHistory") /\ UNCHANGED loc
                ELSE EndEvent(p)
  /\ UNCHANGED <<variant, profiles, families, family_members, daily_topics,
                 pushed, calls, req, idx, resp>>

\* an exception out of handleAIResponse: the group-aware revision has no handler
\* around the call, so the POST's catch ends the delivery; the 1:1 revision
\* catches it inside the loop
ThrowSwallowed(p) == Goto(p, "aiLog") /\ UNCHANGED <<resp, loc>>

Throw(p) ==
  IF variant = "group"
  THEN Respond(p, CatchResponse)
  ELSE EndEvent(p) /\ UNCHANGED resp

\* handleAIResponse: the read of the recent history
AIHistory(p) ==
  /\ pc[p] = "aiHistory"
  /\ IF variant = "group"
     THEN /\ loc' = [loc EXCEPT ![p].ctx = FamilyHistory(loc[p].familyId)]
          /\ Goto(p, "aiGenerate")
     ELSE LET rows == SenderRecent(loc[p].profileId)
          IN IF rows = <<>> \/ UserMessages(rows) = <<>>
             THEN EndEvent(p)
             ELSE /\ loc' = [loc EXCEPT ![p].ctx = UserMessages(rows)]
                  /\ Goto(p, "aiGenerate")
  /\ UNCHANGED <<variant, faultsLeft, store, pushed, calls, req, idx, resp>>

\* handleAIResponse: openai.chat.completions.create and the trim
AIGenerate(p) ==
  /\ pc[p] = "aiGenerate"
  /\ \E out \in {"throw", "none", "blank", "text"} :
       /\ calls' = calls \cup {Called(p, "completion", NoId, out)}
       /\ IF out = "throw"
          THEN Throw(p)
          ELSE IF Trimmed(out, p, idx[p]) = NoText
          THEN EndEvent(p) /\ UNCHANGED resp
          ELSE /\ loc' = [loc EXCEPT ![p].aiText = Trimmed(out, p, idx[p])]
               /\ Goto(p, "aiPush")
               /\ UNCHANGED resp
  /\ UNCHANGED <<variant, faultsLeft, store, pushed, req, idx>>

\* replyToId: groupId || userId in the group-aware revision, the user otherwise
ReplyTargetSender(e) == e.userId

ReplyTarget(e) ==
  IF variant = "group" /\ GroupOf(e) # NoId THEN GroupOf(e) ELSE e.userId

\* handleAIResponse: lineClient.pushMessage
AIPush(p) ==
  /\ pc[p] = "aiPush"
  /\ \E delivered \in BOOLEAN :
       /\ calls' = calls \cup {Called(p, "push", ReplyTarget(loc[p].ev),
                                      IF delivered THEN "ok" ELSE "throw")}
       /\ IF delivered
          THEN /\ pushed' = pushed \cup
                    {[to |-> ReplyTarget(loc[p].ev), text |-> loc[p].aiText]}
               /\ Goto(p, "aiLog")
               /\ UNCHANGED <<resp, loc>>
          ELSE Throw(p) /\ UNCHANGED pushed
  /\ UNCHANGED <<variant, faultsLeft, store, req, idx>>

\* handleAIResponse: the conversations insert of the AI message
AILog(p) ==
  /\ pc[p] = "aiLog"
  /\ \E fail \in Spurious :
       /\ Fault(fail)
       /\ LET row == NewConversation(loc[p].profileId, LoggedFamily(p),
                                     loc[p].aiText, TRUE)
          IN conversations' = IF fail THEN conversations
                              ELSE Append(conversations, row)
  /\ EndEvent(p)
  /\ UNCHANGED <<variant, profiles, families, family_members, daily_topics,
                 pushed, calls, req, idx, resp>>

Next ==
  \E p \in Deliveries :
    \/ Receive(p)
    \/ Loop(p)
    \/ InsertProfile(p)
    \/ ResolveFamily(p)
    \/ InsertFamily(p)
    \/ InsertMember(p)
    \/ LogMessage(p)
    \/ AIHistory(p)
    \/ AIGenerate(p)
    \/ AIPush(p)
    \/ AILog(p)

Spec == Init /\ [][Next]_vars

\* ---------------------------------- handleAIResponse on any recent history
\* the rows of sender 1 that concurrent deliveries appended after a message was
\* logged and before its co-participation run read the history: each one a
\* further message of the sender or an AI reply to one
FlagSeqs(n) == UNION {[1..k -> BOOLEAN] : k \in 0..n}

RowsMeanwhile(flags) ==
  [i \in 1..Len(flags) |->
     NewConversation(1, Null,
                     IF flags[i] THEN Completion(0, 5 + i) ELSE Text(0, 5 + i),
                     flags[i])]

\* the 1:1 revision with AI at the call of handleAIResponse for the only event
\* of delivery 1 (its message is logged); the other deliveries carried no event
\* and have returned
InitRun ==
  /\ variant = "soloAI"
  /\ faultsLeft = MaxFaults
  /\ profiles = <<NewProfile("U1", DefaultRole)>>
  /\ families = <<>>
  /\ family_members = <<>>
  /\ \E backlog \in {<<>>, SettledConversations(Null)}, flags \in FlagSeqs(MaxMeanwhile) :
       conversations = backlog \o <<NewConversation(1, Null, Text(1, 1), FALSE)>>
                               \o RowsMeanwhile(flags)
  /\ daily_topics = <<>>
  /\ pushed = {}
  /\ calls = {}
  /\ pc = [p \in Deliveries |-> IF p = 1 THEN "aiHistory" ELSE "done"]
  /\ req = [p \in Deliveries |->
              [sig |-> TRUE, body |-> "ok",
               kinds |-> IF p = 1 THEN <<"text">> ELSE <<>>]]
  /\ idx = [p \in Deliveries |-> IF p = 1 THEN 1 ELSE 0]
  /\ loc = [p \in Deliveries |->
              IF p = 1
              THEN [NoLocals EXCEPT
                      !.ev = [userId |-> "U1", groupId |-> NoId, roomId |-> NoId],
                      !.profileId = 1]
              ELSE NoLocals]
  /\ resp = [p \in Deliveries |-> IF p = 1 THEN NoResponse ELSE OkResponse]

NextRun ==
  \E p \in Deliveries :
    \/ Loop(p)
    \/ AIHistory(p)
    \/ AIGenerate(p)
    \/ AIPush(p)
    \/ AILog(p)

RunSpec == InitRun /\ [][NextRun]_vars

\* ============================================ the scheduled topic broadcast
\* GET of src/app/api/cron/daily-topic/route.ts (variant "cron") and GET of
\* src/unnamed/part_000, which also logs the topic as a conversation (variant
\* "cronLog").  One process is one invocation; idx is the position of the family
\* being processed in the list read at the start.
Runs == 1..NumRuns
BroadcastVariants == {"cron", "cronLog"}

\* the group-channel id of the i-th family, when it is linked to a group
ChannelOf(i) == <<"G1", "G2", "G3", "G4", "G5", "G6">>[i]

NoMember == [lineUserId |-> NoId, profileId |-> Null]

\* the locals of GET and of one iteration of its loop
NoBroadcastLocals ==
  [families |-> <<>>,       \* data: families ({ id, line_group_id })
   successCount |-> 0,
   errorCount |-> 0,
   topic |-> NoText,        \* topic
   member |-> NoMember,     \* memberInfo, resp. fallbackUserId / lineUserId
   sentToUserId |-> Null]   \* sentToUserId (cron; never assigned)

FetchFailedResponse == [status |-> 500, error |-> "Failed to fetch families"]
NoFamiliesResponse == [status |-> 200, message |-> "OK", processed |-> 0]
Summary(n, s, e) ==
  [status |-> 200, message |-> "OK", processed |-> n, success |-> s, errors |-> e]

NewDailyTopic(family, topic, recipient) ==
  [family_id |-> family, topic |-> topic, sent_to_user_id |-> recipient]

\* .from('daily_topics').insert(row): a plain insert, nothing is looked up first
InsertTopicUpsert(row) ==
  IF \E i \in DOMAIN daily_topics : daily_topics[i].family_id = row.family_id
  THEN LET i == CHOOSE k \in DOMAIN daily_topics :
                  daily_topics[k].family_id = row.family_id
       IN [daily_topics EXCEPT ![i] = row]
  ELSE Append(daily_topics, row)

InsertTopicOncePerFamily(row) ==
  IF \E i \in DOMAIN daily_topics : daily_topics[i].family_id = row.family_id
  THEN daily_topics
  ELSE Append(daily_topics, row)

InsertTopic(row) == Append(daily_topics, row)

\* the families the webhook can have left: linked to a group or personal, the
\* membership insert done or failed; group families have two members
FamilyShapes == [linked : BOOLEAN, joined : BOOLEAN]
ShapeSeqs(n) == UNION {[1..k -> FamilyShapes] : k \in 0..n}

MembersOfShapes(shapes) ==
  LET both == [j \in 1..(2 * Len(shapes)) |->
                 [row |-> NewMember((j + 1) \div 2, 2 - (j % 2)),
                  kept |-> /\ shapes[(j + 1) \div 2].joined
                           /\ \/ shapes[(j + 1) \div 2].linked
                              \/ j % 2 = 1]]
      Kept(e) == e.kept
      kept == SelectSeq(both, Kept)
  IN [j \in 1..Len(kept) |-> kept[j].row]

\* family_members of one family (.limit(1) returns any one of them), each with
\* the profile it refers to
MembersOf(fid) ==
  {[lineUserId |-> profiles[m.user_id].line_user_id, profileId |-> m.user_id] :
     m \in {x \in {family_members[j] : j \in DOMAIN family_members} :
              x.family_id = fid /\ x.user_id \in DOMAIN profiles}}

\* the rows an earlier run (run 0) left when it delivered to every family it
\* could: the cron route needs a group or a member, part_000 a member, whom it
\* also records; part_000 logs the topic as a conversation too
PriorFamilies ==
  LET Reached(f) == IF variant = "cron"
                    THEN f.line_group_id # NoId \/ MembersOf(f.id) # {}
                    ELSE MembersOf(f.id) # {}
  IN SelectSeq([i \in DOMAIN families |->
                  [id |-> i, line_group_id |-> families[i].line_group_id]],
               Reached)
PriorTopics ==
  [k \in DOMAIN PriorFamilies |->
     NewDailyTopic(PriorFamilies[k].id, Completion(0, PriorFamilies[k].id),
                   IF variant = "cron" THEN Null ELSE 1)]
PriorConversations ==
  IF variant = "cron" THEN <<>>
  ELSE [k \in DOMAIN PriorFamilies |->
          NewConversation(1, PriorFamilies[k].id,
                          Completion(0, PriorFamilies[k].id), TRUE)]

InitBroadcast ==
  /\ variant \in BroadcastVariants
  /\ faultsLeft = MaxFaults
  /\ profiles = <<NewProfile("U1", "member"), NewProfile("U2", "member")>>
  /\ \E shapes \in ShapeSeqs(MaxFamilies) :
       /\ families = [i \in 1..Len(shapes) |->
                        IF shapes[i].linked
                        THEN NewFamily(ChannelOf(i), "FamilyGroup")
                        ELSE NewFamily(NoId, "MyHome")]
       /\ family_members = MembersOfShapes(shapes)
  /\ \E rerun \in BOOLEAN :
       /\ conversations = IF rerun THEN PriorConversations ELSE <<>>
       /\ daily_topics = IF rerun THEN PriorTopics ELSE <<>>
  /\ pushed = {}
  /\ calls = {}
  /\ pc = [r \in Runs |-> "idle"]
  /\ req = [r \in Runs |-> NoRequest]
  /\ idx = [r \in Runs |-> 0]
  /\ loc = [r \in Runs |-> NoBroadcastLocals]
  /\ resp = [r \in Runs |-> NoResponse]

\* for (const family of families): the family of the current iteration
Family(r) == loc[r].families[idx[r]]

\* the end of one iteration (continue, the inner catch, or the end of the body)
\* with the counters as given, and the summary after the last one
NextFamilyAbortsBatch(r, success, errors) ==
  /\ resp' = [resp EXCEPT ![r] =
       IF errors > loc[r].errorCount
       THEN [status |-> 500, error |-> "Internal server error"]
       ELSE Summary(Len(loc[r].families), success, errors)]
  /\ IF idx[r] = Len(loc[r].families) \/ errors > loc[r].errorCount
     THEN /\ pc' = [pc EXCEPT ![r] = "done"]
          /\ loc' = [loc EXCEPT ![r] = NoBroadcastLocals]
          /\ UNCHANGED idx
     ELSE /\ pc' = [pc EXCEPT ![r] = "generate"]
          /\ idx' = [idx EXCEPT ![r] = @ + 1]
          /\ loc' = [loc EXCEPT ![r] =
                       [NoBroadcastLocals EXCEPT !.families = loc[r].families,
                                                 !.successCount = success,
                                                 !.errorCount = errors]]

NextFamily(r, success, errors) ==
  IF idx[r] = Len(loc[r].families)
  THEN /\ resp' = [resp EXCEPT ![r] = Summary(Len(loc[r].families), success, errors)]
       /\ pc' = [pc EXCEPT ![r] = "done"]
       /\ loc' = [loc EXCEPT ![r] = NoBroadcastLocals]
       /\ UNCHANGED idx
  ELSE /\ pc' = [pc EXCEPT ![r] = "generate"]
       /\ idx' = [idx EXCEPT ![r] = @ + 1]
       /\ loc' = [loc EXCEPT ![r] =
                    [NoBroadcastLocals EXCEPT !.families = loc[r].families,
                                              !.successCount = success,
                                              !.errorCount = errors]]
       /\ UNCHANGED resp

\* errorCount++; continue
FailedUncounted(r) == NextFamily(r, loc[r].successCount, loc[r].errorCount)

Failed(r) == NextFamily(r, loc[r].successCount, loc[r].errorCount + 1)

\* successCount++
SucceededUncounted(r) == NextFamily(r, loc[r].successCount, loc[r].errorCount)

Succeeded(r) == NextFamily(r, loc[r].successCount + 1, loc[r].errorCount)

\* after the last insert of the iteration: its error is logged, nothing else
AfterSaveCountsError(r, fail) == IF fail THEN Failed(r) ELSE Succeeded(r)

AfterSave(r, fail) == Succeeded(r)

\* GET: the select of all families
BroadcastStart(r) ==
  /\ pc[r] = "idle"
  /\ \E fetched \in BOOLEAN :
       IF ~fetched
       THEN /\ resp' = [resp EXCEPT ![r] = FetchFailedResponse]
            /\ pc' = [pc EXCEPT ![r] = "done"]
            /\ UNCHANGED <<idx, loc>>
       ELSE IF families = <<>>
       THEN /\ resp' = [resp EXCEPT ![r] = NoFamiliesResponse]
            /\ pc' = [pc EXCEPT ![r] = "done"]
            /\ UNCHANGED <<idx, loc>>
       ELSE /\ loc' = [loc EXCEPT ![r] =
                         [NoBroadcastLocals EXCEPT !.families =
                            [i \in DOMAIN families |->
                               [id |-> i, line_group_id |-> families[i].line_group_id]]]]
            /\ idx' = [idx EXCEPT ![r] = 1]
            /\ pc' = [pc EXCEPT ![r] = "generate"]
            /\ UNCHANGED resp
  /\ UNCHANGED <<variant, faultsLeft, store, pushed, calls, req>>

\* where GET goes once it holds a topic: part_000 resolves a member first, the
\* cron route pushes to the group when there is one
AfterTopicMemberFirst(f) == "getMember"

AfterTopic(f) ==
  IF variant = "cronLog" THEN "getMember"
  ELSE IF f.line_group_id # NoId THEN "pushGroup" ELSE "getMember"

\* the completion for the current family, the trim and the test of the topic
GenerateTopic(r) ==
  /\ pc[r] = "generate"
  /\ \E out \in {"throw", "none", "blank", "text"} :
       /\ calls' = calls \cup {Called(r, "completion", NoId, out)}
       /\ IF out = "throw" \/ Trimmed(out, r, idx[r]) = NoText
          THEN Failed(r)
          ELSE /\ loc' = [loc EXCEPT ![r].topic = Trimmed(out, r, idx[r])]
               /\ pc' = [pc EXCEPT ![r] = AfterTopic(Family(r))]
               /\ UNCHANGED <<idx, resp>>
  /\ UNCHANGED <<variant, faultsLeft, store, pushed, req>>

\* where GET goes once it holds a member
AfterMember(f) ==
  IF variant = "cronLog" /\ f.line_group_id # NoId THEN "pushGroup"
  ELSE "pushIndividual"

\* getFamilyMemberInfo / getFamilyMemberLineUserId: the two selects; null when
\* a select fails, the family has no member or the profile has no LINE id
GetFamilyMember(r) ==
  /\ pc[r] = "getMember"
  /\ \E read \in BOOLEAN :
       LET found == {m \in MembersOf(Family(r).id) : m.lineUserId # NoId}
       IN IF ~read \/ found = {}
          THEN Failed(r)
          ELSE \E m \in found :
                 /\ loc' = [loc EXCEPT ![r].member = m]
                 /\ pc' = [pc EXCEPT ![r] = AfterMember(Family(r))]
                 /\ UNCHANGED <<idx, resp>>
  /\ UNCHANGED <<variant, faultsLeft, store, pushed, calls, req>>

\* where GET goes when the push to the group is rejected: the cron route looks
\* for a member then, part_000 already holds one
AfterGroupFailureRetries(r) == "pushGroup"

AfterGroupFailure(r) == IF variant = "cron" THEN "getMember" ELSE "pushIndividual"

\* lineClient.pushMessage(family.line_group_id, ...)
PushGroup(r) ==
  /\ pc[r] = "pushGroup"
  /\ \E delivered \in BOOLEAN :
       /\ calls' = calls \cup {Called(r, "push", Family(r).line_group_id,
                                      IF delivered THEN "ok" ELSE "throw")}
       /\ IF delivered
          THEN /\ pushed' = pushed \cup
                    {[to |-> Family(r).line_group_id, text |-> loc[r].topic]}
               /\ pc' = [pc EXCEPT ![r] = "saveTopic"]
               /\ UNCHANGED <<idx, loc, resp>>
          ELSE /\ pc' = [pc EXCEPT ![r] = AfterGroupFailure(r)]
               /\ UNCHANGED <<pushed, idx, loc, resp>>
  /\ UNCHANGED <<variant, faultsLeft, store, req>>

\* lineClient.pushMessage to the member's own channel (direct or as fallback)
PushIndividual(r) ==
  /\ pc[r] = "pushIndividual"
  /\ \E delivered \in BOOLEAN :
       /\ calls' = calls \cup {Called(r, "push", loc[r].member.lineUserId,
                                      IF delivered THEN "ok" ELSE "throw")}
       /\ IF delivered
          THEN /\ pushed' = pushed \cup
                    {[to |-> loc[r].member.lineUserId, text |-> loc[r].topic]}
               /\ pc' = [pc EXCEPT ![r] = "saveTopic"]
               /\ UNCHANGED <<idx, loc, resp>>
          ELSE Failed(r) /\ UNCHANGED pushed
  /\ UNCHANGED <<variant, faultsLeft, store, req>>

\* sent_to_user_id: sentToUserId in the cron route, memberInfo.profileId in part_000
Recipient(r) ==
  IF variant = "cron" THEN loc[r].sentToUserId ELSE loc[r].member.profileId

\* only part_000 goes on to insert the topic into conversations
LogsConversationAlways(v) == TRUE

LogsConversation(v) == v = "cronLog"

\* the daily_topics insert; its error is only logged
SaveDailyTopic(r) ==
  /\ pc[r] = "saveTopic"
  /\ \E fail \in Spurious :
       /\ Fault(fail)
       /\ daily_topics' =
            IF fail THEN daily_topics
            ELSE InsertTopic(NewDailyTopic(Family(r).id, loc[r].topic, Recipient(r)))
       /\ IF ~LogsConversation(variant)
          THEN AfterSave(r, fail)
          ELSE /\ pc' = [pc EXCEPT ![r] = "saveConversation"]
               /\ UNCHANGED <<idx, loc, resp>>
  /\ UNCHANGED <<variant, profiles, families, family_members, conversations,
                 pushed, calls, req>>

\* part_000: the conversations insert of the topic as an AI message
SaveConversation(r) ==
  /\ pc[r] = "saveConversation"
  /\ \E fail \in Spurious :
       /\ Fault(fail)
       /\ conversations' =
            IF fail THEN conversations
            ELSE Append(conversations,
                        NewConversation(loc[r].member.profileId, Family(r).id,
                                        loc[r].topic, TRUE))
       /\ AfterSave(r, fail)
  /\ UNCHANGED <<variant, profiles, families, family_members, daily_topics,
                 pushed, calls, req>>

NextBroadcast ==
  \E r \in Runs :
    \/ BroadcastStart(r)
    \/ GenerateTopic(r)
    \/ GetFamilyMember(r)
    \/ PushGroup(r)
    \/ PushIndividual(r)
    \/ SaveDailyTopic(r)
    \/ SaveConversation(r)

BroadcastSpec == InitBroadcast /\ [][NextBroadcast]_vars

\* ================================================ the on-demand broadcast
\* POST of src/unnamed/part_000 ("gacha"): one process is one request
Requests == 1..NumRequests

\* the platform user ids a request may carry: members of a family, a user with a
\* profile and no family, a user never seen
GachaUsers == {"U1", "U2", "U3", "U4"}

NoMemberInfo ==
  [profileId |-> Null, familyId |-> Null, lineUserId |-> NoId, lineGroupId |-> NoId]

\* the locals of POST
NoGachaLocals ==
  [profileId |-> Null,          \* profile.id in getUserFamilyInfo
   memberInfo |-> NoMemberInfo, \* memberInfo
   topic |-> NoText]            \* topic

BadRequestResponse == [status |-> 400, error |-> "User ID is required"]
NotFoundResponse == [status |-> 404, error |-> "Family not found"]
GachaErrorResponse == [status |-> 500, error |-> "error.message"]
TopicResponse(topic) == [status |-> 200, topic |-> topic]

\* the text pushed and the text logged for a topic
GachaMessage(topic) == <<"gacha-push", topic>>
GachaLog(topic) == <<"gacha-log", topic>>

\* the store as the webhook left it: U1 in the family of group G1, U2 in a
\* personal family, U3 with a profile only; U1 may have a personal family too
InitGacha ==
  /\ variant = "gacha"
  /\ faultsLeft = MaxFaults
  /\ profiles = <<NewProfile("U1", "member"), NewProfile("U2", "member"),
                  NewProfile("U3", "member")>>
  /\ families = <<NewFamily("G1", "FamilyGroup"), NewFamily(NoId, "MyHome"),
                  NewFamily(NoId, "MyHome")>>
  /\ family_members \in {<<NewMember(1, 1), NewMember(2, 2)>>,
                         <<NewMember(1, 1), NewMember(2, 2), NewMember(3, 1)>>}
  /\ conversations = <<>>
  /\ daily_topics = <<>>
  /\ pushed = {}
  /\ calls = {}
  /\ pc = [p \in Requests |-> "idle"]
  /\ req = [p \in Requests |-> NoRequest]
  /\ idx = [p \in Requests |-> 0]
  /\ loc = [p \in Requests |-> NoGachaLocals]
  /\ resp = [p \in Requests |-> NoResponse]

\* return NextResponse.json(...)
GachaRespond(p, r) ==
  /\ resp' = [resp EXCEPT ![p] = r]
  /\ pc' = [pc EXCEPT ![p] = "done"]
  /\ loc' = [loc EXCEPT ![p] = NoGachaLocals]

\* if (!profile) return null, answered with 404: nothing is created
ProfileAbsentCreates(p, lineUserId) ==
  /\ profiles' = Append(profiles, NewProfile(lineUserId, "unknown"))
  /\ loc' = [loc EXCEPT ![p].profileId = Len(profiles) + 1]
  /\ pc' = [pc EXCEPT ![p] = "gachaMember"]
  /\ UNCHANGED resp

ProfileAbsent(p, lineUserId) ==
  /\ GachaRespond(p, NotFoundResponse)
  /\ UNCHANGED profiles

\* POST: req.json(), the test of lineUserId, and the select of the profile
GachaReceive(p) ==
  /\ pc[p] = "idle"
  /\ \E lineUserId \in GachaUsers \cup {NoId}, read \in BOOLEAN :
       /\ req' = [req EXCEPT ![p] = [lineUserId |-> lineUserId]]
       /\ IF lineUserId = NoId
          THEN GachaRespond(p, BadRequestResponse) /\ UNCHANGED profiles
          ELSE IF ~read \/ SelectProfile(lineUserId) = Null
          THEN ProfileAbsent(p, lineUserId)
          ELSE /\ loc' = [loc EXCEPT ![p].profileId = SelectProfile(lineUserId)]
               /\ pc' = [pc EXCEPT ![p] = "gachaMember"]
               /\ UNCHANGED <<resp, profiles>>
  /\ UNCHANGED <<variant, faultsLeft, families, family_members, conversations,
                 daily_topics, pushed, calls, idx>>

\* family_members of one user joined to their families (.limit(1).single()
\* returns any one of them)
MembershipsOfAnyone(pid) ==
  {[family_id |-> family_members[j].family_id,
    line_group_id |-> families[family_members[j].family_id].line_group_id] :
     j \in DOMAIN family_members}

MembershipsOf(pid) ==
  {[family_id |-> family_members[j].family_id,
    line_group_id |-> families[family_members[j].family_id].line_group_id] :
     j \in {k \in DOMAIN family_members : family_members[k].user_id = pid}}

\* getUserFamilyInfo: the select of the membership; POST answers 404 on null
GachaMember(p) ==
  /\ pc[p] = "gachaMember"
  /\ \E read \in BOOLEAN :
       IF ~read \/ MembershipsOf(loc[p].profileId) = {}
       THEN GachaRespond(p, NotFoundResponse)
       ELSE \E m \in MembershipsOf(loc[p].profileId) :
              /\ loc' = [loc EXCEPT ![p].memberInfo =
                           [profileId |-> loc[p].profileId,
                            familyId |-> m.family_id,
                            lineUserId |-> req[p].lineUserId,
                            lineGroupId |-> m.line_group_id]]
              /\ pc' = [pc EXCEPT ![p] = "gachaGenerate"]
              /\ UNCHANGED resp
  /\ UNCHANGED <<variant, faultsLeft, store, pushed, calls, req, idx>>

\* catch (error): whatever was thrown is answered with 500 and its message
GachaCatchGoesOn(p) ==
  /\ pc' = [pc EXCEPT ![p] = "gachaSaveConversation"]
  /\ UNCHANGED <<resp, loc>>

GachaCatch(p) == GachaRespond(p, GachaErrorResponse)

\* the completion; an empty topic is thrown as an error, answered with 500
GachaGenerate(p) ==
  /\ pc[p] = "gachaGenerate"
  /\ \E out \in {"throw", "none", "blank", "text"} :
       /\ calls' = calls \cup {Called(p, "completion", NoId, out)}
       /\ IF out = "throw" \/ Trimmed(out, p, idx[p]) = NoText
          THEN GachaCatch(p)
          ELSE /\ loc' = [loc EXCEPT ![p].topic = Trimmed(out, p, idx[p])]
               /\ pc' = [pc EXCEPT ![p] = "gachaPush"]
               /\ UNCHANGED resp
  /\ UNCHANGED <<variant, faultsLeft, store, pushed, req, idx>>

\* const targetId = memberInfo.lineGroupId || memberInfo.lineUserId
GachaTargetUserOnly(memberInfo) == memberInfo.lineUserId

GachaTarget(memberInfo) ==
  IF memberInfo.lineGroupId # NoId THEN memberInfo.lineGroupId
  ELSE memberInfo.lineUserId

\* lineClient.pushMessage(targetId, ...)
GachaPush(p) ==
  /\ pc[p] = "gachaPush"
  /\ \E delivered \in BOOLEAN :
       /\ calls' = calls \cup {Called(p, "push", GachaTarget(loc[p].memberInfo),
                                      IF delivered THEN "ok" ELSE "throw")}
       /\ IF delivered
          THEN /\ pushed' = pushed \cup
                    {[to |-> GachaTarget(loc[p].memberInfo),
                      text |-> GachaMessage(loc[p].topic)]}
               /\ pc' = [pc EXCEPT ![p] = "gachaSaveConversation"]
               /\ UNCHANGED <<resp, loc>>
          ELSE GachaCatch(p) /\ UNCHANGED pushed
  /\ UNCHANGED <<variant, faultsLeft, store, req, idx>>

\* the conversations insert; its result is not looked at
GachaSaveConversation(p) ==
  /\ pc[p] = "gachaSaveConversation"
  /\ \E fail \in Spurious :
       /\ Fault(fail)
       /\ conversations' =
            IF fail THEN conversations
            ELSE Append(conversations,
                        NewConversation(loc[p].memberInfo.profileId,
                                        loc[p].memberInfo.familyId,
                                        GachaLog(loc[p].topic), TRUE))
  /\ pc' = [pc EXCEPT ![p] = "gachaSaveTopic"]
  /\ UNCHANGED <<variant, profiles, families, family_members, daily_topics,
                 pushed, calls, req, idx, loc, resp>>

\* the daily_topics insert (its result is not looked at) and the response
GachaSaveTopic(p) ==
  /\ pc[p] = "gachaSaveTopic"
  /\ \E fail \in Spurious :
       /\ Fault(fail)
       /\ daily_topics' =
            IF fail THEN daily_topics
            ELSE InsertTopic(NewDailyTopic(loc[p].memberInfo.familyId, loc[p].topic,
                                           loc[p].memberInfo.profileId))
  /\ GachaRespond(p, TopicResponse(loc[p].topic))
  /\ UNCHANGED <<variant, profiles, families, family_members, conversations,
                 pushed, calls, req, idx>>

NextGacha ==
  \E p \in Requests :
    \/ GachaReceive(p)
    \/ GachaMember(p)
    \/ GachaGenerate(p)
    \/ GachaPush(p)
    \/ GachaSaveConversation(p)
    \/ GachaSaveTopic(p)

GachaSpec == InitGacha /\ [][NextGacha]_vars

\* ================================================ every handler
\* the webhook, the scheduled broadcast and the on-demand broadcast, each from
\* its own initial states and with its own steps
InitHandlers == Init \/ InitRun \/ InitBroadcast \/ InitGacha

NextHandlers ==
  \/ variant \in Variants /\ Next
  \/ variant \in BroadcastVariants /\ NextBroadcast
  \/ variant = "gacha" /\ NextGacha

HandlersSpec == InitHandlers /\ [][NextHandlers]_vars

\* ============================================================== claims
Rows(t) == {t[i] : i \in DOMAIN t}

\* the awaits inside the loop body
EventStages == {"insertProfile", "resolveFamily", "insertFamily", "insertMember",
                "logMessage", "aiHistory", "aiGenerate", "aiPush", "aiLog"}
\* ... those reached only with a profile id in hand
ResolvedStages == EventStages \ {"insertProfile"}
\* ... those reached only after getOrCreateFamily has returned
LoggingStages == {"logMessage", "aiHistory", "aiGenerate", "aiPush", "aiLog"}

\* delivery p leaves the loop body in this step (continue, end of body, or return)
EndsEvent(p) == pc[p] \in EventStages /\ pc'[p] \in {"loop", "done"}

\* delivery p has finished its current event, a text event
FinishedTextEvent(p) ==
  /\ pc[p] = "loop"
  /\ idx[p] >= 1
  /\ req[p].kinds[idx[p]] = "text"

Logged(content) == \E c \in Rows(conversations) : c.content = content

ProfilesOf(t, userId) == {i \in DOMAIN t : t[i].line_user_id = userId}
FamiliesOf(t, groupId) == {i \in DOMAIN t : t[i].line_group_id = groupId}

\* C1: under every interleaving of deliveries, no platform user id ever has two
\* profiles, and whenever a delivery leaves a text event (no insert having failed
\* for a reason other than the unique constraint) exactly one profile exists for
\* that event's user.
C1_ProfileIdempotent ==
  [][/\ \A u \in UserIds : Cardinality(ProfilesOf(profiles', u)) <= 1
     /\ \A p \in Deliveries :
          (EndsEvent(p) /\ faultsLeft' = MaxFaults)
            => Cardinality(ProfilesOf(profiles', loc[p].ev.userId)) = 1]_vars

\* a delivery lost the race: its text event ended unlogged although no insert
\* failed spuriously, and the profile it raced for exists
C1_Witness ==
  /\ NoFaultYet
  /\ profiles # <<>>
  /\ \E p \in Deliveries : FinishedTextEvent(p) /\ ~Logged(Text(p, idx[p]))

\* C2: the event whose profile insert hits the unique violation still continues
\* and gets its message logged: with no spurious store failure, every text event
\* a delivery has finished is in the conversation log.
C2_RaceLoserStillLogged ==
  \A p \in Deliveries :
    (NoFaultYet /\ FinishedTextEvent(p)) => Logged(Text(p, idx[p]))

\* C3: under every interleaving no group-channel id ever has two families, and
\* whenever a delivery leaves a group event whose family resolution ran (no
\* insert having failed spuriously) exactly one family exists for that group id.
C3_FamilyIdempotent ==
  [][/\ \A g \in GroupIds \cup RoomIds : Cardinality(FamiliesOf(families', g)) <= 1
     /\ \A p \in Deliveries :
          ( /\ variant = "group"
            /\ pc[p] \in LoggingStages
            /\ pc'[p] \in {"loop", "done"}
            /\ GroupOf(loc[p].ev) # NoId
            /\ faultsLeft' = MaxFaults )
            => Cardinality(FamiliesOf(families', GroupOf(loc[p].ev))) = 1]_vars

\* a delivery lost the race for a group's family: its families insert returned
\* no row although the store failed nothing spuriously
C3_Witness ==
  /\ NoFaultYet
  /\ \E p \in Deliveries :
       /\ pc[p] = "logMessage"
       /\ loc[p].famErr
       /\ GroupOf(loc[p].ev) # NoId
       /\ Cardinality(FamiliesOf(families, GroupOf(loc[p].ev))) = 1

\* C4: a membership insert for a pair that already exists counts as success: the
\* resolver still returns the family id, the pair is in the relation exactly once,
\* the message is then logged under that family and the loop goes on; and the
\* relation never holds a pair twice.
C4_DuplicateMembershipIsSuccess ==
  [][/\ \A i, j \in DOMAIN family_members' :
          family_members'[i] = family_members'[j] => i = j
     /\ \A p \in Deliveries :
          (pc'[p] = "logMessage" /\ loc'[p].joinErr = "duplicate")
            => /\ loc'[p].familyId # Null
               /\ [family_id |-> loc'[p].familyId, user_id |-> loc'[p].profileId]
                    \in Rows(family_members')
     /\ \A p \in Deliveries :
          ( /\ pc[p] = "logMessage"
            /\ pc'[p] # "logMessage"
            /\ loc[p].joinErr = "duplicate"
            /\ faultsLeft' = faultsLeft )
            => /\ conversations' = Append(conversations,
                    [sender_id |-> loc[p].profileId, family_id |-> loc[p].familyId,
                     content |-> Text(p, idx[p]), is_ai_generated |-> FALSE])
               /\ pc'[p] \in {"loop", "aiHistory"}
               /\ resp'[p] = NoResponse]_vars

\* a message logged under the family whose membership insert was a duplicate
C4_Witness ==
  \E p \in Deliveries :
    /\ pc[p] = "aiHistory"
    /\ loc[p].joinErr = "duplicate"
    /\ \E c \in Rows(conversations) :
         c.content = Text(p, idx[p]) /\ c.family_id = loc[p].familyId

\* the personal families (no group-channel id) a profile is a member of
PersonalFamiliesOf(pid) ==
  {f \in DOMAIN families :
     /\ families[f].line_group_id = NoId
     /\ [family_id |-> f, user_id |-> pid] \in Rows(family_members)}

\* C5: a 1:1 event of a user who is already a member of a personal family resolves
\* to that family (one of them, should races have left several) and creates no
\* family.
C5_PersonalFamilyReused ==
  [][\A p \in Deliveries :
       ( /\ pc[p] = "resolveFamily"
         /\ pc'[p] # "resolveFamily"
         /\ GroupOf(loc[p].ev) = NoId
         /\ PersonalFamiliesOf(loc[p].profileId) # {} )
         => /\ loc'[p].familyId \in PersonalFamiliesOf(loc[p].profileId)
            /\ pc'[p] = "insertMember"
            /\ families' = families]_vars

\* a 1:1 event resolved to a personal family its user already belonged to
C5_Witness ==
  \E p \in Deliveries :
    /\ pc[p] = "insertMember"
    /\ loc[p].ev # NoEvent
    /\ GroupOf(loc[p].ev) = NoId
    /\ loc[p].familyId \in PersonalFamiliesOf(loc[p].profileId)

\* C6: in the group-aware revision the family resolver returns null only when the
\* families insert failed, and the message is then still logged, with family id
\* null, the resolved sender and is_ai_generated false.
C6_NullFamilyStillLogged ==
  [][\A p \in Deliveries :
       /\ (variant = "group" /\ pc'[p] = "logMessage" /\ loc'[p].familyId = Null)
            => loc'[p].famErr
       /\ ( /\ variant = "group"
            /\ pc[p] = "logMessage"
            /\ pc'[p] # "logMessage"
            /\ loc[p].familyId = Null
            /\ faultsLeft' = faultsLeft )
            => conversations' = Append(conversations,
                 [sender_id |-> loc[p].profileId, family_id |-> Null,
                  content |-> Text(p, idx[p]), is_ai_generated |-> FALSE])]_vars

\* the group-aware revision logged a message with family id null
C6_Witness ==
  /\ variant = "group"
  /\ \E p \in Deliveries :
       /\ FinishedTextEvent(p)
       /\ \E c \in Rows(conversations) :
            /\ c.content = Text(p, idx[p])
            /\ c.family_id = Null
            /\ ~c.is_ai_generated

\* C7: every response a webhook handler returns has status 200, on every path.
C7_AlwaysTransportSuccess ==
  \A p \in Deliveries :
    /\ pc[p] = "done" => resp[p] # NoResponse
    /\ resp[p] # NoResponse => resp[p].status = 200

\* a delivery with a valid signature and a well-formed body that ended in the
\* POST's catch (a generation or delivery failure)
C7_Witness ==
  \E p \in Deliveries :
    /\ pc[p] = "done"
    /\ req[p].sig
    /\ req[p].body = "ok"
    /\ resp[p].message = "Error"

\* C8: a delivery whose signature does not verify is answered at once with
\* status 200 and changes nothing: no row is created and no push is sent, and
\* the delivery takes no further step.
C8_BadSignatureNoMutation ==
  [][\A p \in Deliveries :
       /\ (pc[p] = "idle" /\ pc'[p] # "idle" /\ ~req'[p].sig)
            => /\ pc'[p] = "done"
               /\ resp'[p].status = 200
               /\ store' = store
               /\ pushed' = pushed
       /\ (req[p] # NoRequest /\ ~req[p].sig)
            => /\ pc[p] = "done"
               /\ idx'[p] = 0]_vars

\* a delivery with an invalid signature over a body carrying a text event has
\* been answered
C8_Witness ==
  \E p \in Deliveries :
    /\ pc[p] = "done"
    /\ ~req[p].sig
    /\ req[p].kinds = <<"text">>
    /\ resp[p] = InvalidSignatureResponse

\* C9: a failure while processing one event never keeps the later events of the
\* delivery from being processed: a verified, well-formed delivery that has
\* returned has left no text event unprocessed.
C9_LaterEventsProcessed ==
  \A p \in Deliveries :
    (pc[p] = "done" /\ req[p].sig /\ req[p].body = "ok")
      => \A j \in (idx[p] + 1)..Len(req[p].kinds) : req[p].kinds[j] # "text"

\* the min(5, n) most recent rows of a family, oldest first
ExpectedContext(fid) ==
  LET OfFamily(c) == c.family_id = fid
      rows == SelectSeq(conversations, OfFamily)
      n == Len(rows)
      k == IF n < 5 THEN n ELSE 5
  IN [i \in 1..k |-> rows[n - k + i].content]

\* C10: a family-scoped co-participation run hands the generation exactly the
\* min(5, n) most recent rows of the family in chronological order, and, given
\* text and a delivered push, appends exactly one row: AI-generated, of that
\* family; it writes no other row.
C10_FamilyScopedRun ==
  [][\A p \in Deliveries :
       variant = "group" =>
         /\ (pc[p] = "aiHistory" /\ pc'[p] # "aiHistory")
              => /\ pc'[p] = "aiGenerate"
                 /\ loc'[p].ctx = ExpectedContext(loc[p].familyId)
         /\ (pc[p] \in {"aiHistory", "aiGenerate", "aiPush"} /\ pc'[p] # pc[p])
              => conversations' = conversations
         /\ (pc[p] = "aiLog" /\ pc'[p] # "aiLog" /\ faultsLeft' = faultsLeft)
              => /\ [to |-> ReplyTarget(loc[p].ev), text |-> loc[p].aiText] \in pushed
                 /\ loc[p].aiText # NoText
                 /\ conversations' = Append(conversations,
                      [sender_id |-> loc[p].profileId, family_id |-> loc[p].familyId,
                       content |-> loc[p].aiText, is_ai_generated |-> TRUE])]_vars

\* a run over a family with more than five rows was handed five and appended its
\* AI row
C10_Witness ==
  /\ variant = "group"
  /\ \E i \in DOMAIN conversations :
       /\ conversations[i].is_ai_generated
       /\ conversations[i].content[2] # 0
       /\ Cardinality({j \in 1..(i - 1) :
             conversations[j].family_id = conversations[i].family_id}) >= 6

\* the human-authored rows among the min(5, n) most recent rows of a sender,
\* oldest first
ExpectedSenderContext(sid) ==
  LET OfSender(c) == c.sender_id = sid
      Human(c) == ~c.is_ai_generated
      rows == SelectSeq(conversations, OfSender)
      n == Len(rows)
      k == IF n < 5 THEN n ELSE 5
      recent == [i \in 1..k |-> rows[n - k + i]]
  IN MapContent(SelectSeq(recent, Human))

\* C11: a sender-scoped co-participation run hands the generation the contents of
\* the human-authored rows among the sender's five most recent rows, oldest first;
\* if none of them is human-authored the run ends there: no generation, no push,
\* no new row.  The read itself writes nothing.
C11_SenderScopedRun ==
  [][\A p \in Deliveries :
       (variant = "soloAI" /\ pc[p] = "aiHistory" /\ pc'[p] # "aiHistory")
         => /\ store' = store
            /\ pushed' = pushed
            /\ IF ExpectedSenderContext(loc[p].profileId) = <<>>
               THEN pc'[p] = "loop"
               ELSE /\ pc'[p] = "aiGenerate"
                    /\ loc'[p].ctx = ExpectedSenderContext(loc[p].profileId)]_vars

\* a run over a sender whose five most recent rows are all AI-generated has ended
\* with nothing sent
C11_Witness ==
  \E p \in Deliveries :
    /\ variant = "soloAI"
    /\ pc[p] \in {"loop", "done"}
    /\ idx[p] = 1
    /\ Len(conversations) >= 6
    /\ \A i \in (Len(conversations) - 4)..Len(conversations) :
         conversations[i].sender_id = 1 /\ conversations[i].is_ai_generated
    /\ \E i \in DOMAIN conversations : conversations[i].content = Text(p, 1)
    /\ pushed = {}

\* the awaits of handleAIResponse
AIStages == {"aiHistory", "aiGenerate", "aiPush", "aiLog"}

\* C12: co-participation is attempted for an event only after its message was
\* logged: a run starts only in the step that appends the event's human row (in
\* the group-aware revision, under a family id that is not null), and when the
\* insert reports an error, or the group-aware family id is null, the event ends
\* there; while a run is under way the event's message is in the log.
C12_AIOnlyAfterLogged ==
  [][\A p \in Deliveries :
       /\ (pc'[p] \in AIStages /\ pc[p] \notin AIStages)
            => /\ pc[p] = "logMessage"
               /\ pc'[p] = "aiHistory"
               /\ faultsLeft' = faultsLeft
               /\ conversations' = Append(conversations,
                    [sender_id |-> loc[p].profileId, family_id |-> LoggedFamily(p),
                     content |-> Text(p, idx[p]), is_ai_generated |-> FALSE])
               /\ variant = "group" => loc[p].familyId # Null
       /\ ( /\ pc[p] = "logMessage"
            /\ pc'[p] # "logMessage"
            /\ \/ faultsLeft' # faultsLeft
               \/ variant = "group" /\ loc[p].familyId = Null )
            => /\ pc'[p] = "loop"
               /\ pushed' = pushed
               /\ faultsLeft' # faultsLeft => conversations' = conversations
       /\ pc'[p] \in AIStages
            => \E i \in DOMAIN conversations' :
                 conversations'[i].content = Text(p, idx'[p])]_vars

\* the conversations insert of a new user's message reported an error (the
\* profile was created, nothing was logged) and the event has ended with no
\* push and no AI row
C12_Witness ==
  /\ variant # "solo"
  /\ faultsLeft = 0
  /\ Len(profiles) = 2
  /\ conversations \in {SettledConversations(Null),
                         Append(SettledConversations(1),
                                NewConversation(1, 2, Text(0, 4), FALSE))}
  /\ pushed = {}
  /\ \E p \in Deliveries :
       /\ FinishedTextEvent(p)
       /\ \A q \in Deliveries \ {p} : pc[q] = "idle"

\* the calls of one kind made for event i of delivery d
CallsOf(d, i, api) == {c \in calls : c.by = d /\ c.at = i /\ c.api = api}

\* what a co-participation run for event i of delivery d could send or log
RunTexts(d, i) == {Completion(d, i), Whitespace, NoText}

\* C13: when the completion of a co-participation run comes back empty or as
\* white space only, the run ends there: no push is attempted for that event,
\* nothing of it is delivered and no AI row of it is logged (either revision
\* with AI); and nothing empty is ever delivered or logged.
C13_EmptyOutputAbortsSilently ==
  /\ \A c \in calls :
       (c.api = "completion" /\ c.result \in {"none", "blank"})
         => /\ CallsOf(c.by, c.at, "push") = {}
            /\ \A m \in pushed : m.text \notin RunTexts(c.by, c.at)
            /\ \A r \in Rows(conversations) :
                 r.is_ai_generated => r.content \notin RunTexts(c.by, c.at)
            /\ idx[c.by] = c.at => /\ pc[c.by] \in {"loop", "done"}
                                   /\ resp[c.by] \in {NoResponse, OkResponse}
  /\ \A m \in pushed : m.text \notin {Whitespace, NoText}
  /\ \A r \in Rows(conversations) : r.content \notin {Whitespace, NoText}

\* a completion came back as white space only and the event has ended
C13_Witness ==
  \E c \in calls :
    /\ c.api = "completion"
    /\ c.result = "blank"
    /\ pc[c.by] = "loop"
    /\ idx[c.by] = c.at

\* C14: the AI row of a co-participation run is appended only after its push
\* was delivered; when the push fails, no AI row of that run is ever written
\* and the delivery is still answered with status 200.
C14_AIRowOnlyAfterDelivery ==
  /\ \A r \in Rows(conversations) :
       (r.is_ai_generated /\ r.content[2] # 0)
         => /\ \E c \in CallsOf(r.content[2], r.content[3], "push") : c.result = "ok"
            /\ \E m \in pushed : m.text = r.content
  /\ \A c \in calls :
       (c.api = "push" /\ c.result = "throw")
         => /\ \A r \in Rows(conversations) :
                 r.is_ai_generated => r.content # Completion(c.by, c.at)
            /\ idx[c.by] = c.at => pc[c.by] \in {"loop", "done"}
            /\ pc[c.by] = "done" => resp[c.by].status = 200

\* a push failed and the delivery has been answered
C14_Witness ==
  \E c \in calls :
    /\ c.api = "push"
    /\ c.result = "throw"
    /\ pc[c.by] = "done"
    /\ resp[c.by].status = 200

\* ------------------------------------------------ the scheduled broadcast
\* run r has returned the summary of a pass over a non-empty list of families
Summarised(r) ==
  /\ pc[r] = "done"
  /\ resp[r].status = 200
  /\ resp[r].processed > 0

\* the families of a run for which a push was delivered / a topic was generated
DeliveredTo(r) ==
  {i \in DOMAIN families : \E c \in CallsOf(r, i, "push") : c.result = "ok"}
GeneratedFor(r) ==
  {i \in DOMAIN families : \E c \in CallsOf(r, i, "completion") : c.result = "text"}

\* C15: a run that got the list of N families answers 200 with processed = N
\* whatever failed on the way; every family was taken up (a topic was asked for
\* each), errors counts the families nothing was delivered to and success the
\* others; a failure never ends the run early.
C15_FailureDoesNotAbortBatch ==
  \A r \in Runs :
    /\ pc[r] \notin {"idle", "done"}
         => /\ resp[r] = NoResponse
            /\ \A i \in 1..(idx[r] - 1) : CallsOf(r, i, "completion") # {}
    /\ (pc[r] = "done" /\ {c \in calls : c.by = r} # {})
         => /\ Summarised(r)
            /\ resp[r].processed = Len(families)
            /\ \A i \in DOMAIN families : CallsOf(r, i, "completion") # {}
            /\ resp[r].success = Cardinality(DeliveredTo(r))
            /\ resp[r].errors = Len(families) - Cardinality(DeliveredTo(r))

\* three families, the generation for the second one threw: processed 3,
\* success 2, errors 1, and the first and the third got their topic
C15_Witness ==
  \E r \in Runs :
    /\ pc[r] = "done"
    /\ resp[r] = Summary(3, 2, 1)
    /\ \E c \in CallsOf(r, 2, "completion") : c.result = "throw"
    /\ DeliveredTo(r) = {1, 3}
    /\ \E m \in pushed : m.text = Completion(r, 1)
    /\ \E m \in pushed : m.text = Completion(r, 3)

\* the pushes of run r for family i that went to the family's group / elsewhere
GroupPushes(r, i) ==
  {c \in CallsOf(r, i, "push") : c.to = families[i].line_group_id}
MemberPushes(r, i) == CallsOf(r, i, "push") \ GroupPushes(r, i)

\* C16: for a family linked to a group a push to the group comes before any
\* other push: a member's own channel is pushed to only when the family has no
\* group or the push to its group was rejected, and it is a member of that
\* family; a family whose fallback push was delivered counts as a success.
C16_GroupFirstThenMember ==
  \A r \in Runs :
    /\ \A i \in DOMAIN families :
         /\ families[i].line_group_id # NoId
              => /\ MemberPushes(r, i) # {}
                      => \E c \in GroupPushes(r, i) : c.result = "throw"
                 /\ (pc[r] \in {"pushIndividual", "getMember"} /\ idx[r] = i)
                      => \/ \E c \in GroupPushes(r, i) : c.result = "throw"
                         \/ variant = "cronLog" /\ pc[r] = "getMember"
                 /\ \A c \in GroupPushes(r, i) :
                      c.result = "ok" => MemberPushes(r, i) = {}
         /\ \A c \in MemberPushes(r, i) :
              \E m \in MembersOf(i) : m.lineUserId = c.to
    /\ Summarised(r) => resp[r].success = Cardinality(DeliveredTo(r))

\* the only family is linked to a group; the push to the group was rejected, the
\* push to a member was delivered and the family was counted as a success
C16_Witness ==
  \E r \in Runs :
    /\ pc[r] = "done"
    /\ resp[r] = Summary(1, 1, 0)
    /\ families[1].line_group_id # NoId
    /\ \E c \in GroupPushes(r, 1) : c.result = "throw"
    /\ \E c \in MemberPushes(r, 1) : c.result = "ok"

\* C17: a DailyTopic row is recorded for every family a topic was generated
\* for, whether or not the topic was delivered: once a run has returned (no
\* insert having failed), each such family has its row.
C17_TopicRecordedWhateverDelivery ==
  \A r \in Runs :
    (pc[r] = "done" /\ NoFaultYet)
      => \A i \in GeneratedFor(r) :
           \E t \in Rows(daily_topics) :
             t.family_id = i /\ t.topic = Completion(r, i)

\* ------------------------------------------------ the on-demand broadcast
\* the rows request p wrote
TopicsOf(p) ==
  {i \in DOMAIN daily_topics : daily_topics[i].topic = Completion(p, 0)}
EntriesOf(p) ==
  {i \in DOMAIN conversations :
     conversations[i].content = GachaLog(Completion(p, 0))}

\* the user has no profile, or a profile that is a member of no family
Familyless(lineUserId) ==
  \/ \A i \in DOMAIN profiles : profiles[i].line_user_id # lineUserId
  \/ \A i \in DOMAIN profiles :
       profiles[i].line_user_id = lineUserId
         => \A j \in DOMAIN family_members : family_members[j].user_id # i

\* C18: an on-demand request for a user id with no profile, or whose profile is
\* in no family, is answered 404; it calls neither the generation nor the push
\* and writes no DailyTopic and no ConversationEntry.
C18_UnknownUserNotFound ==
  \A p \in Requests :
    (req[p] # NoRequest /\ req[p].lineUserId # NoId /\ Familyless(req[p].lineUserId))
      => /\ pc[p] \in {"gachaMember", "done"}
         /\ pc[p] = "done" => resp[p] = NotFoundResponse
         /\ {c \in calls : c.by = p} = {}
         /\ TopicsOf(p) = {}
         /\ EntriesOf(p) = {}
         /\ \A m \in pushed : m.text # GachaMessage(Completion(p, 0))

\* a request for a user never seen and one for a user with a profile and no
\* family have both been answered 404, with nothing sent and nothing written
C18_Witness ==
  \E p, q \in Requests :
    /\ pc[p] = "done" /\ pc[q] = "done"
    /\ req[p].lineUserId = "U4" /\ req[q].lineUserId = "U3"
    /\ SelectProfile("U4") = Null
    /\ SelectProfile("U3") # Null
    /\ resp[p] = NotFoundResponse /\ resp[q] = NotFoundResponse
    /\ calls = {}
    /\ daily_topics = <<>>
    /\ conversations = <<>>

\* C19: no step of an on-demand request, on any path, changes the profiles, the
\* families or the memberships.
C19_GachaCreatesNoIdentity ==
  [][/\ profiles' = profiles
     /\ families' = families
     /\ family_members' = family_members]_vars

\* one request has been answered with its topic and another one with 404 for a
\* user never seen, and the three relations are as they were
C19_Witness ==
  \E p, q \in Requests :
    /\ pc[p] = "done" /\ resp[p].status = 200
    /\ pc[q] = "done" /\ resp[q] = NotFoundResponse /\ req[q].lineUserId = "U4"
    /\ Len(profiles) = 3
    /\ Len(families) = 3
    /\ Len(family_members) \in {2, 3}

GenerationFailed(p) ==
  \E c \in calls : c.by = p /\ c.api = "completion" /\ c.result # "text"
PushFailed(p) ==
  \E c \in calls : c.by = p /\ c.api = "push" /\ c.result = "throw"

\* C21: an on-demand request whose generation threw or gave an empty topic, or
\* whose push was rejected, is answered with the error response (status 500 and
\* the message of the error) and writes no DailyTopic and no ConversationEntry:
\* every row in either table is of a request whose push was delivered.
C21_GachaFailureSurfaced ==
  /\ \A p \in Requests :
       (GenerationFailed(p) \/ PushFailed(p))
         => /\ pc[p] = "done"
            /\ resp[p] = GachaErrorResponse
            /\ resp[p].status \notin 200..299
            /\ TopicsOf(p) = {}
            /\ EntriesOf(p) = {}
  /\ \A t \in Rows(daily_topics) :
       \E q \in Requests :
         /\ t.topic = Completion(q, 0)
         /\ ~GenerationFailed(q) /\ ~PushFailed(q)
  /\ \A t \in Rows(conversations) :
       \E q \in Requests :
         /\ t.content = GachaLog(Completion(q, 0))
         /\ ~GenerationFailed(q) /\ ~PushFailed(q)

\* one request got an empty topic and another one had its push rejected: both
\* were answered 500 and neither table has a row
C21_Witness ==
  \E p, q \in Requests :
    /\ pc[p] = "done" /\ pc[q] = "done"
    /\ \E c \in calls : c.by = p /\ c.api = "completion" /\ c.result = "blank"
    /\ ~GenerationFailed(q) /\ PushFailed(q)
    /\ resp[p] = GachaErrorResponse /\ resp[q] = GachaErrorResponse
    /\ daily_topics = <<>>
    /\ conversations = <<>>

\* ------------------------------------------------ the webhook, event by event
\* the rows event i of delivery p wrote: its message and the AI's reply
RowsOfEvent(p, i) ==
  {a \in DOMAIN conversations :
     conversations[a].content \in {Text(p, i), Completion(p, i)}}

\* C22: the events of a delivery are handled one after another in the order of
\* the delivery: nothing of a later event is written before an earlier one is
\* over, and an event from the user of an earlier, logged event of the same
\* delivery finds that event's profile: it inserts no profile and holds the same
\* sender id, so the user has one profile and both messages carry it.
C22_EventsInDeliveryOrder ==
  \A p \in Deliveries :
    /\ \A j \in (idx[p] + 1)..Len(req[p].kinds) : RowsOfEvent(p, j) = {}
    /\ \A i, j \in 1..idx[p] :
         i < j => \A a \in RowsOfEvent(p, i), b \in RowsOfEvent(p, j) : a < b
    /\ pc[p] \in EventStages
         => \A i \in 1..(idx[p] - 1) : \A a \in RowsOfEvent(p, i) :
              LET s == conversations[a].sender_id
              IN profiles[s].line_user_id = loc[p].ev.userId
                   => /\ pc[p] # "insertProfile"
                      /\ loc[p].profileId = s
                      /\ ProfilesOf(profiles, loc[p].ev.userId) = {s}
    /\ \A i, j \in 1..idx[p] :
         \A a \in RowsOfEvent(p, i), b \in RowsOfEvent(p, j) :
           profiles[conversations[a].sender_id].line_user_id
             = profiles[conversations[b].sender_id].line_user_id
             => conversations[a].sender_id = conversations[b].sender_id

\* on an empty store, one delivery carried two text events of one user: one
\* profile was created and both messages were logged, in order, under its id
C22_Witness ==
  \E p \in Deliveries :
    /\ pc[p] = "done"
    /\ req[p].kinds = <<"text", "text">>
    /\ Len(profiles) = 1
    /\ Len(conversations) = 2
    /\ conversations[1].content = Text(p, 1)
    /\ conversations[2].content = Text(p, 2)
    /\ conversations[1].sender_id = 1
    /\ conversations[2].sender_id = 1

\* ------------------------------------------------ a broadcast run again
\* an earlier run left its rows
Rerun == \E t \in Rows(daily_topics), i \in DOMAIN families : t.topic = Completion(0, i)

C24_OtherEventsIgnored ==
  [][\A p \in Deliveries :
       /\ ( /\ pc[p] = "loop"
            /\ idx'[p] = idx[p] + 1
            /\ req[p].kinds[idx'[p]] # "text" )
            => /\ store' = store
               /\ pushed' = pushed
               /\ calls' = calls
               /\ pc'[p] = "loop"
               /\ resp'[p] = NoResponse
       /\ \A i \in DOMAIN req'[p].kinds :
            req'[p].kinds[i] # "text"
              => /\ \A a \in DOMAIN conversations' :
                      conversations'[a].content \notin {Text(p, i), Completion(p, i)}
                 /\ \A c \in calls' : ~(c.by = p /\ c.at = i)]_vars

\* a delivery carried an event of another kind and then a text event: on an
\* empty store, the only row is the text event's message
C24_Witness ==
  \E p \in Deliveries :
    /\ pc[p] = "done"
    /\ req[p].kinds = <<"other", "text">>
    /\ resp[p] = OkResponse
    /\ Len(profiles) = 1
    /\ MapContent(conversations) = <<Text(p, 2)>>

\* C25: when the family_members insert fails with an error that is not a
\* duplicate key, the resolver still returns the family id it had resolved (no
\* membership is added), and the message is then logged under that family and
\* the loop goes on with no response yet.
C25_JoinFailureStillLogged ==
  [][\A p \in Deliveries :
       /\ ( /\ pc[p] = "insertMember"
            /\ pc'[p] # "insertMember"
            /\ loc'[p].joinErr = "other" )
            => /\ pc'[p] = "logMessage"
               /\ loc[p].familyId # Null
               /\ loc'[p].familyId = loc[p].familyId
               /\ family_members' = family_members
               /\ resp'[p] = NoResponse
       /\ ( /\ pc[p] = "logMessage"
            /\ pc'[p] # "logMessage"
            /\ loc[p].joinErr = "other"
            /\ faultsLeft' = faultsLeft )
            => /\ conversations' = Append(conversations,
                    [sender_id |-> loc[p].profileId, family_id |-> loc[p].familyId,
                     content |-> Text(p, idx[p]), is_ai_generated |-> FALSE])
               /\ loc[p].familyId # Null
               /\ pc'[p] \in {"loop", "aiHistory"}
               /\ resp'[p] = NoResponse]_vars

\* a message logged under a family its sender could not be made a member of
C25_Witness ==
  \E p \in Deliveries :
    /\ pc[p] = "aiHistory"
    /\ loc[p].joinErr = "other"
    /\ [family_id |-> loc[p].familyId, user_id |-> loc[p].profileId]
         \notin Rows(family_members)
    /\ \E c \in Rows(conversations) :
         /\ c.content = Text(p, idx[p])
         /\ c.family_id = loc[p].familyId
         /\ c.family_id # Null

\* C26: nothing but the membership lookup stands between a user and a second
\* personal family: once a 1:1 event has found no personal family, its families
\* insert (the store not failing) adds a personal family whatever families exist
\* by then, and its family_members insert links the user to it; two events of
\* one user that both looked up before either inserted leave two.
C26_PersonalFamilyNotUnique ==
  [][\A p \in Deliveries :
       /\ ( /\ pc[p] = "insertFamily"
            /\ pc'[p] # "insertFamily"
            /\ GroupOf(loc[p].ev) = NoId
            /\ faultsLeft' = faultsLeft )
            => /\ families' = Append(families, NewFamily(NoId, "MyHome"))
               /\ loc'[p].familyId = Len(families) + 1
               /\ pc'[p] = "insertMember"
       /\ ( /\ pc[p] = "insertMember"
            /\ pc'[p] # "insertMember"
            /\ GroupOf(loc[p].ev) = NoId
            /\ faultsLeft' = faultsLeft )
            => loc[p].familyId \in PersonalFamiliesOf(loc[p].profileId)']_vars

\* two deliveries each carried a 1:1 event of the same user, no insert failed,
\* and the user is now a member of two personal families, one per message
C26_Witness ==
  \E p, q \in Deliveries :
    /\ p # q
    /\ NoFaultYet
    /\ FinishedTextEvent(p) /\ FinishedTextEvent(q)
    /\ Len(profiles) = 1
    /\ Len(families) = 2
    /\ PersonalFamiliesOf(1) = {1, 2}
    /\ \E a, b \in Rows(conversations) :
         /\ a.content = Text(p, 1) /\ a.sender_id = 1 /\ a.family_id = 1
         /\ b.content = Text(q, 1) /\ b.sender_id = 1 /\ b.family_id = 2

\* C27: when the profiles insert of an event returns an error, the event is over
\* at that step: nothing was written, called or sent for it before, nothing is
\* after, and the delivery is back at the head of the loop with no response yet,
\* where it takes up the next event.
C27_ProfileFailureSkipsEvent ==
  [][\A p \in Deliveries :
       /\ pc'[p] = "insertProfile"
            => /\ \A a \in DOMAIN conversations' :
                    conversations'[a].content
                      \notin {Text(p, idx'[p]), Completion(p, idx'[p])}
               /\ \A c \in calls' : ~(c.by = p /\ c.at = idx'[p])
       /\ ( /\ pc[p] = "insertProfile"
            /\ pc'[p] # "insertProfile"
            /\ profiles' = profiles )
            => /\ store' = store
               /\ pushed' = pushed
               /\ calls' = calls
               /\ pc'[p] = "loop"
               /\ idx'[p] = idx[p]
               /\ resp'[p] = NoResponse
       /\ ( /\ pc[p] = "loop"
            /\ idx[p] >= 1
            /\ req[p].kinds[idx[p]] = "text"
            /\ \A a \in DOMAIN conversations :
                 conversations[a].content # Text(p, idx[p]) )
            => \A a \in DOMAIN conversations' :
                 conversations'[a].content
                   \notin {Text(p, idx[p]), Completion(p, idx[p])}]_vars

\* on an empty store a delivery carried two text events: the profiles insert of
\* the first one failed, no family was made for it, and the second one was
\* processed: its message is the only row
C27_Witness ==
  \E p \in Deliveries :
    /\ pc[p] = "done"
    /\ req[p].kinds = <<"text", "text">>
    /\ faultsLeft < MaxFaults
    /\ Len(profiles) = 1
    /\ Len(families) <= 1
    /\ MapContent(conversations) = <<Text(p, 2)>>
    /\ \A c \in calls : c.at # 1

\* ------------------------------------------------ one family of a scheduled run
\* the generation for family i of run r threw or gave an empty topic
NoTopicFor(r, i) == \E c \in CallsOf(r, i, "completion") : c.result # "text"

\* C28: when the generation for a family throws or gives an empty topic, the
\* step that learns it adds one to errors and nothing to success, writes and
\* sends nothing and goes to the next family (or to the summary); no push is
\* ever made for that family in that run and no row is written for it.
C28_NoTopicNoDelivery ==
  [][\A r \in Runs :
       /\ ( /\ pc[r] = "generate"
            /\ \E c \in calls' \ calls : c.by = r /\ c.result # "text" )
            => /\ store' = store
               /\ pushed' = pushed
               /\ IF idx[r] = Len(loc[r].families)
                  THEN /\ pc'[r] = "done"
                       /\ resp'[r] = Summary(Len(loc[r].families),
                                             loc[r].successCount,
                                             loc[r].errorCount + 1)
                  ELSE /\ pc'[r] = "generate"
                       /\ idx'[r] = idx[r] + 1
                       /\ loc'[r].errorCount = loc[r].errorCount + 1
                       /\ loc'[r].successCount = loc[r].successCount
                       /\ resp'[r] = NoResponse
       /\ \A i \in DOMAIN families :
            NoTopicFor(r, i)'
              => /\ \A c \in calls' : ~(c.by = r /\ c.at = i /\ c.api = "push")
                 /\ \A t \in Rows(daily_topics') :
                      t.family_id = i => t.topic \notin RunTexts(r, i)
                 /\ \A t \in Rows(conversations') :
                      t.family_id = i => t.content \notin RunTexts(r, i)]_vars

\* a run over two families: the first got an empty topic and no push, the second
\* was delivered to; one error, one success
C28_Witness ==
  \E r \in Runs :
    /\ pc[r] = "done"
    /\ resp[r] = Summary(2, 1, 1)
    /\ \E c \in CallsOf(r, 1, "completion") : c.result = "blank"
    /\ CallsOf(r, 1, "push") = {}
    /\ DeliveredTo(r) = {2}
    /\ \A t \in Rows(daily_topics) : t.topic # Completion(r, 1)

\* C29: a family gets to the inserts only after a push for it was delivered, and
\* an insert that fails there changes no table and costs the family nothing: the
\* iteration ends as it does when the insert succeeds, one more success, errors
\* as they were, and the run goes to the next family or returns the summary.
C29_SaveFailureStillSuccess ==
  [][\A r \in Runs :
       /\ pc'[r] \in {"saveTopic", "saveConversation"}
            => \E c \in calls' :
                 c.by = r /\ c.at = idx'[r] /\ c.api = "push" /\ c.result = "ok"
       /\ ( /\ pc[r] \in {"saveTopic", "saveConversation"}
            /\ pc'[r] # pc[r] \/ idx'[r] # idx[r]
            /\ faultsLeft' < faultsLeft )
            => /\ store' = store
               /\ IF variant = "cronLog" /\ pc[r] = "saveTopic"
                  THEN /\ pc'[r] = "saveConversation"
                       /\ loc'[r] = loc[r]
                       /\ resp'[r] = NoResponse
                  ELSE IF idx[r] = Len(loc[r].families)
                  THEN /\ pc'[r] = "done"
                       /\ resp'[r] = Summary(Len(loc[r].families),
                                             loc[r].successCount + 1,
                                             loc[r].errorCount)
                  ELSE /\ pc'[r] = "generate"
                       /\ idx'[r] = idx[r] + 1
                       /\ loc'[r].successCount = loc[r].successCount + 1
                       /\ loc'[r].errorCount = loc[r].errorCount
                       /\ resp'[r] = NoResponse]_vars

\* a run over two families delivered to both and its insert for the first one
\* failed: two successes, no error, and a row for the second family only
C29_Witness ==
  \E r \in Runs :
    /\ pc[r] = "done"
    /\ resp[r] = Summary(2, 2, 0)
    /\ faultsLeft < MaxFaults
    /\ DeliveredTo(r) = {1, 2}
    /\ \A t \in Rows(daily_topics) : t.topic # Completion(r, 1)
    /\ \E t \in Rows(daily_topics) : t.topic = Completion(r, 2)

\* C30: in the route that logs no conversation, the DailyTopic row of a topic
\* that was delivered to a member's own channel (the family has no group, or the
\* push to its group was rejected) carries the profile id of that member as its
\* recipient.
C30_RecipientRecorded ==
  variant = "cron"
    => \A r \in Runs, i \in DOMAIN families :
         \A t \in Rows(daily_topics) :
           (t.family_id = i /\ t.topic = Completion(r, i))
             => \A c \in MemberPushes(r, i) :
                  c.result = "ok"
                    => \E m \in MembersOf(i) :
                         /\ m.lineUserId = c.to
                         /\ t.sent_to_user_id = m.profileId

\* the ConversationEntry rows of run r for family i
EntriesFor(r, i) ==
  {a \in DOMAIN conversations : conversations[a].content = Completion(r, i)}

\* C31: the cron route never has a row in conversations; in the other route
\* every row a run wrote is AI-generated, of the family it was generated for,
\* and of a family a push was delivered to, at most one per family and run, and
\* exactly one once the run has returned with no insert having failed.
C31_ConversationOnlyWhenLogging ==
  /\ variant = "cron" => conversations = <<>>
  /\ variant = "cronLog"
       => \A r \in Runs, i \in DOMAIN families :
            /\ Cardinality(EntriesFor(r, i)) <= 1
            /\ \A a \in EntriesFor(r, i) :
                 /\ conversations[a].is_ai_generated
                 /\ conversations[a].family_id = i
                 /\ i \in DeliveredTo(r)
            /\ (Summarised(r) /\ NoFaultYet /\ i \in DeliveredTo(r))
                 => Cardinality(EntriesFor(r, i)) = 1
            /\ i \notin DeliveredTo(r) => EntriesFor(r, i) = {}

\* the conversation-logging route ran over two families on a store with no
\* earlier rows: every push for the first was rejected, the second was delivered
\* to, and the only ConversationEntry is the second family's, AI-generated
C31_Witness ==
  \E r \in Runs :
    /\ variant = "cronLog"
    /\ NoFaultYet
    /\ resp[r] = Summary(2, 1, 1)
    /\ \E c \in CallsOf(r, 1, "push") : c.result = "throw"
    /\ DeliveredTo(r) = {2}
    /\ Len(conversations) = 1
    /\ conversations[1].content = Completion(r, 2)
    /\ conversations[1].family_id = 2
    /\ conversations[1].is_ai_generated

\* ------------------------------------------------ the 1:1 revisions
\* C32: under the two 1:1 revisions of the webhook no step changes families or
\* family_members, and every row a step adds to conversations, the user's
\* message or the AI's reply, has family id null, whether the event came from a
\* 1:1 chat, a group or a room.
C32_SoloNeverTouchesFamilies ==
  [][(variant \in {"solo", "soloAI"})
       => /\ families' = families
          /\ family_members' = family_members
          /\ \A a \in DOMAIN conversations' :
               a > Len(conversations) => conversations'[a].family_id = Null]_vars

\* under the 1:1 revision with AI, an event sent in a group has its message
\* logged and its reply pushed; an AI reply of this run is logged as well; no
\* row has a family and there is no family
C32_Witness ==
  \E p \in Deliveries :
    /\ variant = "soloAI"
    /\ pc[p] = "aiLog"
    /\ GroupOf(loc[p].ev) # NoId
    /\ \E c \in Rows(conversations) :
         c.content = Text(p, idx[p]) /\ c.family_id = Null /\ ~c.is_ai_generated
    /\ \E q \in Deliveries, j \in 1..MaxEvents :
         \E c \in Rows(conversations) :
           c.content = Completion(q, j) /\ c.family_id = Null /\ c.is_ai_generated
    /\ \A c \in Rows(conversations) : c.family_id = Null
    /\ families = <<>>
    /\ family_members = <<>>

\* where the reply to an event is to go
ExpectedReplyTarget(e) ==
  IF variant # "group" THEN e.userId
  ELSE IF e.groupId # NoId THEN e.groupId
  ELSE IF e.roomId # NoId THEN e.roomId
  ELSE e.userId

\* C33: the push of a co-participation run goes to the group of the event that
\* set it off when it has one, else to its room when it has one, else to its
\* sender; under the sender-scoped revision always to the sender.  One push is
\* made, and what LINE accepts is the reply for that target.
C33_ReplyTarget ==
  [][\A p \in Deliveries :
       (pc[p] = "aiPush" /\ pc'[p] # "aiPush")
         => /\ \E c \in calls' :
                 /\ calls' = calls \cup {c}
                 /\ c.by = p /\ c.at = idx[p] /\ c.api = "push"
                 /\ c.to = ExpectedReplyTarget(loc[p].ev)
            /\ pushed' \in {pushed,
                             pushed \cup {[to |-> ExpectedReplyTarget(loc[p].ev),
                                           text |-> Completion(p, idx[p])]}}
            /\ pc'[p] = "aiLog"
                 => [to |-> ExpectedReplyTarget(loc[p].ev),
                     text |-> Completion(p, idx[p])] \in pushed']_vars

\* under the group-aware revision a reply was pushed to a group and another one
\* to a room
C33_Witness ==
  /\ variant = "group"
  /\ \E m \in pushed : m.to \in GroupIds
  /\ \E m \in pushed : m.to \in RoomIds
  /\ \E c \in calls : c.api = "push" /\ c.to \in RoomIds /\ c.result = "ok"

\* ------------------------------------------------ every table, every handler
\* table t after a step is t with rows added at its end
Extends(after, before) ==
  /\ Len(after) >= Len(before)
  /\ SubSeq(after, 1, Len(before)) = before

\* C34: every step of every handler leaves each table as it was or with rows
\* added at its end: no row of profiles, families, family_members, conversations
\* or daily_topics is ever removed or changed.
C34_AppendOnly ==
  [][/\ Extends(profiles', profiles)
     /\ Extends(families', families)
     /\ Extends(family_members', family_members)
     /\ Extends(conversations', conversations)
     /\ Extends(daily_topics', daily_topics)]_vars

\* the group-aware webhook has added a profile, a family, a membership and a
\* message to the store earlier deliveries left, whose rows are as they were
C34_Witness ==
  /\ variant = "group"
  /\ Len(profiles) = 2
  /\ profiles[1] = NewProfile("U1", DefaultRole)
  /\ Len(families) = 3
  /\ SubSeq(families, 1, 2) = <<NewFamily("G1", "FamilyGroup"), NewFamily(NoId, "MyHome")>>
  /\ Len(family_members) = 3
  /\ SubSeq(family_members, 1, 2) = <<NewMember(1, 1), NewMember(2, 1)>>
  /\ Len(conversations) = 7
  /\ SubSeq(conversations, 1, 5) = SettledConversations(1)
  /\ conversations[7].sender_id = 2
  /\ conversations[7].family_id = 3

\* ------------------------------------------------ the pushes of a scheduled run
\* C35: once a run has returned, every family linked to a group for which it
\* generated a topic has had a push to its group attempted, whether or not a
\* member of the family could be resolved.
C35_GroupPushWithoutMember ==
  \A r \in Runs :
    Summarised(r)
      => \A i \in GeneratedFor(r) :
           families[i].line_group_id # NoId => GroupPushes(r, i) # {}

\* C36: while a run is at a family, the families before it have each been
\* counted once, as a success or as an error; when it returns from a non-empty
\* list, success + errors = processed = the number of families.
C36_EachFamilyCountedOnce ==
  \A r \in Runs :
    /\ pc[r] \notin {"idle", "done"}
         => /\ loc[r].successCount + loc[r].errorCount = idx[r] - 1
            /\ idx[r] \in 1..Len(families)
    /\ (pc[r] = "done" /\ resp[r] # FetchFailedResponse /\ families # <<>>)
         => /\ resp[r].status = 200
            /\ resp[r].processed = Len(families)
            /\ resp[r].success + resp[r].errors = resp[r].processed
            /\ resp[r].success \in 0..Len(families)
            /\ resp[r].errors \in 0..Len(families)

\* a run over three families returned: one had no member to be resolved, one
\* had its push rejected, one was delivered to while its insert failed
C36_Witness ==
  \E r \in Runs :
    /\ pc[r] = "done"
    /\ resp[r] = Summary(3, 1, 2)
    /\ faultsLeft < MaxFaults
    /\ Cardinality(GeneratedFor(r)) = 3
    /\ Cardinality(DeliveredTo(r)) = 1
    /\ \E i \in DOMAIN families : CallsOf(r, i, "push") = {}
    /\ \E i \in DOMAIN families :
         /\ CallsOf(r, i, "push") # {}
         /\ \A c \in CallsOf(r, i, "push") : c.result = "throw"

\* C37: a run is about to push to a family's group only when it has pushed
\* nothing for the family yet, and to a member only when it has delivered
\* nothing and pushed to no member for it; so a family has at most one push to
\* its group and one to a member, at most one of them delivered, and none to a
\* member once the push to the group was delivered.
C37_AtMostTwoPushes ==
  \A r \in Runs :
    /\ pc[r] = "pushGroup" => CallsOf(r, idx[r], "push") = {}
    /\ pc[r] = "pushIndividual"
         => /\ MemberPushes(r, idx[r]) = {}
            /\ \A c \in CallsOf(r, idx[r], "push") : c.result = "throw"
    /\ \A i \in DOMAIN families :
         /\ Cardinality(CallsOf(r, i, "push")) <= 2
         /\ Cardinality(GroupPushes(r, i)) <= 1
         /\ Cardinality(MemberPushes(r, i)) <= 1
         /\ Cardinality({c \in CallsOf(r, i, "push") : c.result = "ok"}) <= 1
         /\ Cardinality({m \in pushed : m.text = Completion(r, i)}) <= 1
         /\ (\E c \in GroupPushes(r, i) : c.result = "ok")
              => CallsOf(r, i, "push") = GroupPushes(r, i)
         /\ (i > idx[r] /\ pc[r] # "done") => CallsOf(r, i, "push") = {}

\* a run over two group families: one push for the first, delivered; two for
\* the second, to the group and to a member, both rejected
C37_Witness ==
  \E r \in Runs :
    /\ pc[r] = "done"
    /\ resp[r] = Summary(2, 1, 1)
    /\ Cardinality(CallsOf(r, 1, "push")) = 1
    /\ \E c \in GroupPushes(r, 1) : c.result = "ok"
    /\ Cardinality(GroupPushes(r, 2)) = 1
    /\ Cardinality(MemberPushes(r, 2)) = 1
    /\ \A c \in CallsOf(r, 2, "push") : c.result = "throw"

\* ------------------------------------------------ senders and their families
\* the sender of row c is a member of the family of row c
SenderIsMember(c, members) ==
  [family_id |-> c.family_id, user_id |-> c.sender_id] \in Rows(members)

\* C38: under the group-aware revision, a row added to conversations with a
\* family id, the user's message or the AI's reply, by an event whose
\* family_members insert did not fail for a reason other than a duplicate key,
\* has its sender a member of that family in the state it is written in; as
\* long as no insert has failed at all, this is so of every row of the table.
C38_SenderIsMember ==
  [][(variant = "group")
       => /\ \A p \in Deliveries :
               ( /\ pc[p] \in {"logMessage", "aiLog"}
                 /\ pc'[p] # pc[p]
                 /\ Len(conversations') > Len(conversations)
                 /\ loc[p].joinErr # "other" )
                 => LET c == conversations'[Len(conversations')]
                    IN c.family_id # Null => SenderIsMember(c, family_members')
          /\ faultsLeft' = MaxFaults
               => \A c \in Rows(conversations') :
                    c.family_id # Null => SenderIsMember(c, family_members')]_vars

\* on an empty store, with no insert failing, an event in a group had its
\* message and the AI's reply logged under the group's family, of which its
\* sender was made a member
C38_Witness ==
  \E p \in Deliveries :
    /\ variant = "group"
    /\ NoFaultYet
    /\ FinishedTextEvent(p)
    /\ \E a, b \in Rows(conversations) :
         /\ a.content = Text(p, idx[p]) /\ ~a.is_ai_generated
         /\ b.content = Completion(p, idx[p]) /\ b.is_ai_generated
         /\ a.family_id # Null
         /\ b.family_id = a.family_id
         /\ families[a.family_id].line_group_id \in GroupIds
         /\ SenderIsMember(a, family_members)
         /\ SenderIsMember(b, family_members)
    /\ \A c \in Rows(conversations) : c.content # Text(0, 1)

====
